---- MODULE Spec2Model ----
(***************************************************************************)
(* Model of the masking engine of maskforge (src/maskforge.py, class       *)
(* Scrubber): the word <-> token store, the text transforms _enc / _dec,   *)
(* the snapshot files written by save and read by load / auto_load, and    *)
(* the per-file loop of batch.                                             *)
(*                                                                         *)
(* A Python str is a sequence of one-character strings.  A path is a       *)
(* record [dir, stem, ext]; stem is a sequence of name chunks, so that     *)
(* base + "_mask_mapping.json" is an Append.                               *)
(***************************************************************************)
EXTENDS Integers, Sequences, FiniteSets, TLC

VARIABLES
    mapping,     \* Scrubber.mapping : word -> mask
    reverse,     \* Scrubber.reverse : mask -> word
    json_paths,  \* Scrubber.json_paths : snapshot paths written by save
    fs,          \* the files on disk : normalised path -> content
    saved,       \* history: snapshot path -> the store as it was when save wrote it
    ret,         \* the last call on the Scrubber: [op, arg, out]
    job,         \* the running batch call: its arguments, loop index and results
    app          \* the App: its Scrubber objects, worker threads and Tk events

vars == <<mapping, reverse, json_paths, fs, saved, ret, job, app>>

(***************************************************************************)
(* Strings and tokens                                                      *)
(***************************************************************************)
HexLen == 8

HexChars == {"0", "1", "2", "3", "4", "5", "6", "7", "8", "9",
             "A", "B", "C", "D", "E", "F"}

MaskPrefix == <<"[", "M", "A", "S", "K", "_">>

TokenLen == Len(MaskPrefix) + HexLen + 1

\* "[MASK_" + uuid.uuid4().hex[:8].upper() + "]"
MakeToken(body) == MaskPrefix \o body \o <<"]">>

\* re.compile(r'\[MASK_[0-9A-F]{8}\]') matching at index i of text
IsTokenAt(text, i) ==
    /\ i + TokenLen - 1 <= Len(text)
    /\ SubSeq(text, i, i + Len(MaskPrefix) - 1) = MaskPrefix
    /\ \A k \in 1..HexLen : text[i + Len(MaskPrefix) - 1 + k] \in HexChars
    /\ text[i + TokenLen - 1] = "]"

IsToken(s) == Len(s) = TokenLen /\ IsTokenAt(s, 1)

\* mask_pat.findall(text): the non-overlapping matches, leftmost first
RECURSIVE FindFrom(_, _)
FindFrom(text, i) ==
    IF i > Len(text) THEN <<>>
    ELSE IF IsTokenAt(text, i)
         THEN <<SubSeq(text, i, i + TokenLen - 1)>> \o FindFrom(text, i + TokenLen)
         ELSE FindFrom(text, i + 1)

mask_findall(text) == FindFrom(text, 1)

\* mask_pat.split(text): the segments between the matches (always one more
\* than the matches)
RECURSIVE SplitFrom(_, _, _)
SplitFrom(text, i, cur) ==
    IF i > Len(text) THEN <<cur>>
    ELSE IF IsTokenAt(text, i)
         THEN <<cur>> \o SplitFrom(text, i + TokenLen, <<>>)
         ELSE SplitFrom(text, i + 1, Append(cur, text[i]))

mask_split(text) == SplitFrom(text, 1, <<>>)

Whitespace == {" ", "\t", "\n"}

\* str.strip()
RECURSIVE LStrip(_)
LStrip(s) == IF s # <<>> /\ Head(s) \in Whitespace THEN LStrip(Tail(s)) ELSE s

RECURSIVE RStrip(_)
RStrip(s) ==
    IF s # <<>> /\ s[Len(s)] \in Whitespace THEN RStrip(SubSeq(s, 1, Len(s) - 1)) ELSE s

strip(s) == RStrip(LStrip(s))

(***************************************************************************)
(* _enc and _dec                                                           *)
(***************************************************************************)
MatchesAt(part, i, w) ==
    /\ i + Len(w) - 1 <= Len(part)
    /\ SubSeq(part, i, i + Len(w) - 1) = w

\* the alternation in ascending length
ShortestFirst(cands) == CHOOSE w \in cands : \A v \in cands : Len(w) <= Len(v)

\* The alternation "|".join(words) tries the words in the order of
\* sorted(mapping.keys(), key=len, reverse=True): of the words matching at
\* one position the longest is taken.
FirstAlternative(cands) == CHOOSE w \in cands : \A v \in cands : Len(v) <= Len(w)

\* word_pat.sub(repl, part), scanning from index i.  An empty key (possible
\* only after load) matches the empty string wherever no other word matches.
RECURSIVE SubFrom(_, _, _)
SubFrom(m, part, i) ==
    LET cands == {w \in DOMAIN m : MatchesAt(part, i, w)}
        w     == FirstAlternative(cands)
    IN  IF cands = {}
        THEN IF i > Len(part) THEN <<>> ELSE <<part[i]>> \o SubFrom(m, part, i + 1)
        ELSE IF w = <<>>
             THEN IF i > Len(part) THEN m[w]
                  ELSE m[w] \o <<part[i]>> \o SubFrom(m, part, i + 1)
             ELSE m[w] \o SubFrom(m, part, i + Len(w))

word_sub(m, part) == SubFrom(m, part, 1)

\* out = safe_parts[0]; for mk, p in zip(masks, safe_parts[1:]): out += mk + p
RECURSIVE Interleave(_, _)
Interleave(parts, masks) ==
    IF Len(parts) <= 1 \/ masks = <<>> THEN Head(parts)
    ELSE Head(parts) \o Head(masks) \o Interleave(Tail(parts), Tail(masks))

\* _enc substituting in the whole text, tokens included
enc_no_split(m, text) ==
    IF DOMAIN m = {} THEN text ELSE word_sub(m, text)

\* Scrubber._enc
enc(m, text) ==
    IF DOMAIN m = {} THEN text
    ELSE LET parts      == mask_split(text)
             masks      == mask_findall(text)
             safe_parts == [k \in 1..Len(parts) |-> word_sub(m, parts[k])]
         IN  Interleave(safe_parts, masks)

\* pat.sub(lambda m: self.reverse.get(m.group(0), m.group(0)), text)
RECURSIVE DecFrom(_, _, _)
DecFrom(r, text, i) ==
    IF i > Len(text) THEN <<>>
    ELSE IF IsTokenAt(text, i)
         THEN LET t == SubSeq(text, i, i + TokenLen - 1)
              IN  (IF t \in DOMAIN r THEN r[t] ELSE t) \o DecFrom(r, text, i + TokenLen)
         ELSE <<text[i]>> \o DecFrom(r, text, i + 1)

\* _dec with self.reverse[m.group(0)] for self.reverse.get(...): KeyError on a
\* token that is no key
dec_strict(r, text) ==
    IF \E k \in 1..Len(mask_findall(text)) : mask_findall(text)[k] \notin DOMAIN r
    THEN <<"KeyError">>
    ELSE DecFrom(r, text, 1)

\* Scrubber._dec
dec(r, text) == DecFrom(r, text, 1)

(***************************************************************************)
(* Paths and snapshot files                                                *)
(***************************************************************************)
\* d = os.path.dirname(p) or "."
dirname_or_dot(p) == IF p.dir = "" THEN "." ELSE p.dir

\* The file a path names: "a.txt" and "./a.txt" are one file.
Norm(p) == [p EXCEPT !.dir = dirname_or_dot(p)]

MAPPING_SUFFIX == "_mask_mapping"

\* os.path.join(d, base + MAPPING_SUFFIX), base the name without its extension
snapshot_path(p) ==
    [dir |-> dirname_or_dot(p), stem |-> Append(p.stem, MAPPING_SUFFIX), ext |-> ".json"]

EmptyDict == <<>>

\* Python None where a path or a message may stand
None == [py |-> "None"]

\* str(e) of a caught exception
Str(e) == [py |-> "str", of |-> e]

JDict(d) == [t |-> "dict", d |-> d]

JNumber == [t |-> "number"]

\* json.dump({"mapping": self.mapping, "reverse": self.reverse}, f, ...)
json_dump(m, r) ==
    [kind |-> "json", top |-> "object",
     members |-> [mapping |-> JDict(m), reverse |-> JDict(r)]]

\* dict.get(key, default)
dict_get(d, key, default) == IF key \in DOMAIN d THEN d[key] ELSE default

\* dict.update(other)
dict_update(m, other) ==
    [w \in DOMAIN m \cup DOMAIN other |-> IF w \in DOMAIN other THEN other[w] ELSE m[w]]

\* reverse_member reading the legacy key alone
reverse_member_legacy_only(d) == dict_get(d, "reverse_mapping", JDict(EmptyDict))

\* d.get("reverse", d.get("reverse_mapping", {}))
reverse_member(d) == dict_get(d, "reverse", dict_get(d, "reverse_mapping", JDict(EmptyDict)))

\* Scrubber.load as a function of the store and the disk: the store it
\* leaves and whether it raised.
load(m, r, disk, path) ==
    LET p == Norm(path) IN
    IF p \notin DOMAIN disk THEN [mapping |-> m, reverse |-> r, raised |-> "FileNotFoundError"]
    ELSE IF disk[p].kind # "json"
         THEN [mapping |-> m, reverse |-> r, raised |-> "JSONDecodeError"]
    ELSE IF disk[p].top # "object"
         THEN [mapping |-> m, reverse |-> r, raised |-> "AttributeError"]
    ELSE LET d  == disk[p].members
             mv == dict_get(d, "mapping", JDict(EmptyDict))
             rv == reverse_member(d)
         IN  IF mv.t # "dict" THEN [mapping |-> m, reverse |-> r, raised |-> "TypeError"]
             ELSE IF rv.t # "dict"
                  THEN [mapping |-> dict_update(m, mv.d), reverse |-> r,
                        raised |-> "TypeError"]
                  ELSE [mapping |-> dict_update(m, mv.d),
                        reverse |-> dict_update(r, rv.d), raised |-> "None"]

\* build_word without "w not in self.mapping"
build_word_always(st, word, tok) ==
    LET w == strip(word) IN
    IF w # <<>>
    THEN [mapping |-> dict_update(st.mapping, (w :> tok)),
          reverse |-> dict_update(st.reverse, (tok :> w))]
    ELSE st

\* build_word without "self.reverse[m] = w"
build_word_forward_only(st, word, tok) ==
    LET w == strip(word) IN
    IF w # <<>> /\ w \notin DOMAIN st.mapping
    THEN [mapping |-> dict_update(st.mapping, (w :> tok)), reverse |-> st.reverse]
    ELSE st

\* One iteration of the loop of Scrubber.build, with the token uuid4 gave.
build_word(st, word, tok) ==
    LET w == strip(word) IN
    IF w # <<>> /\ w \notin DOMAIN st.mapping
    THEN [mapping |-> dict_update(st.mapping, (w :> tok)),
          reverse |-> dict_update(st.reverse, (tok :> w))]
    ELSE st

RECURSIVE BuildFrom(_, _, _, _)
BuildFrom(st, words, toks, i) ==
    IF i > Len(words) THEN st
    ELSE BuildFrom(build_word(st, words[i], toks[i]), words, toks, i + 1)

\* Scrubber.build
build(m, r, words, toks) == BuildFrom([mapping |-> m, reverse |-> r], words, toks, 1)

(***************************************************************************)
(* Inputs                                                                  *)
(***************************************************************************)
MaxWords == 1     \* longest word list handed to build

MaxPieces == 2    \* longest text handed to _enc / _dec, in pieces

MaxSaves == 1     \* most snapshots one Scrubber writes through save calls

\* The values uuid4().hex[:8].upper() takes here.  The body of T1 contains
\* the words "A" and "AB".
T1 == MakeToken(<<"A", "B", "0", "0", "0", "0", "0", "0">>)

T2 == MakeToken(<<"0", "0", "0", "0", "0", "0", "0", "1">>)

TokenPool == {T1, T2}

WordA == <<"A">>

WordAB == <<"A", "B">>

WordPool == {WordA, WordAB, <<" ", "A", " ">>, <<" ">>}

WordLists == UNION {[1..n -> WordPool] : n \in 0..MaxWords}

\* What texts are made of: a mapped word, a letter no word starts with, a
\* well-formed token (known to the store or not, as the store goes) and the
\* beginning of a token.
Pieces == {<<"A">>, <<"B">>, T1, MaskPrefix}

RECURSIVE Flatten(_)
Flatten(ps) == IF ps = <<>> THEN <<>> ELSE Head(ps) \o Flatten(Tail(ps))

Texts == {Flatten(ps) : ps \in UNION {[1..n -> Pieces] : n \in 0..MaxPieces}}

Path(d, stem, ext) == [dir |-> d, stem |-> stem, ext |-> ext]

\* Snapshot files of other sessions and damaged files, on disk from the start.
Foreign(name) == Path(".", <<name, MAPPING_SUFFIX>>, ".json")

JObject(members) == [kind |-> "json", top |-> "object", members |-> members]

ForeignFiles ==
    (Foreign("other")   :> JObject([mapping |-> JDict(WordA :> T2),
                                    reverse |-> JDict(T2 :> WordA)])) @@
    (Foreign("legacy")  :> JObject([mapping |-> JDict(WordAB :> T1),
                                    reverse_mapping |-> JDict(T1 :> WordAB)])) @@
    (Foreign("nokeys")  :> JObject(EmptyDict)) @@
    (Foreign("badmap")  :> JObject([mapping |-> JNumber,
                                    reverse |-> JDict(T2 :> WordA)])) @@
    (Foreign("badrev")  :> JObject([mapping |-> JDict(WordA :> T2),
                                    reverse |-> JNumber])) @@
    (Foreign("array")   :> [kind |-> "json", top |-> "array"]) @@
    (Foreign("garbage") :> [kind |-> "garbage"])

\* Output documents save is called for: two names of one snapshot file.
OutPaths == {Path("", <<"a", "_enc">>, ".txt"), Path(".", <<"a", "_enc">>, ".docx")}

\* Documents auto_load is called for.
DocPaths == OutPaths \cup {Path("", <<"other">>, ".txt"), Path("", <<"badrev">>, ".txt"),
                           Path("", <<"b">>, ".txt")}

LoadPaths == DOMAIN ForeignFiles \cup {snapshot_path(p) : p \in OutPaths}
                 \cup {Foreign("missing")}

(***************************************************************************)
(* The state after Scrubber() and the calls on it                          *)
(***************************************************************************)
Idle == [active |-> FALSE]

\* Scrubber.__init__ as an object of its own
EmptyStore == [mapping |-> EmptyDict, reverse |-> EmptyDict, json_paths |-> <<>>]

\* App.__init__: self.scrubber = Scrubber(); no thread, no event queued.
\* scrubber is the index in stores of the object self.scrubber refers to.
AppInit == [scrubber |-> 1, stores |-> <<EmptyStore>>, threads |-> <<>>,
            pending |-> <<>>, last |-> [op |-> "__init__", load |-> FALSE]]

Init ==
    /\ mapping = EmptyDict
    /\ reverse = EmptyDict
    /\ json_paths = <<>>
    /\ fs = ForeignFiles
    /\ saved = EmptyDict
    /\ ret = [op |-> "init", arg |-> <<>>, out |-> <<>>]
    /\ job = Idle
    /\ app = AppInit

\* Scrubber.build(words); uuid4 gives toks[i] in iteration i
Build(words) ==
    \E toks \in [1..Len(words) -> TokenPool] :
        LET st == build(mapping, reverse, words, toks) IN
        /\ mapping' = st.mapping
        /\ reverse' = st.reverse
        /\ ret' = [op |-> "build", arg |-> words, out |-> "None"]
        /\ UNCHANGED <<json_paths, fs, saved, job, app>>

\* Scrubber._enc(text)
Enc(text) ==
    /\ ret' = [op |-> "enc", arg |-> text, out |-> enc(mapping, text)]
    /\ UNCHANGED <<mapping, reverse, json_paths, fs, saved, job, app>>

\* Scrubber._dec(text)
Dec(text) ==
    /\ ret' = [op |-> "dec", arg |-> text, out |-> dec(reverse, text)]
    /\ UNCHANGED <<mapping, reverse, json_paths, fs, saved, job, app>>

\* Scrubber.save(out_path)
Save(out_path) ==
    LET mp == snapshot_path(out_path) IN
    /\ Len(json_paths) < MaxSaves
    /\ fs' = dict_update(fs, (mp :> json_dump(mapping, reverse)))
    /\ json_paths' = Append(json_paths, mp)
    /\ saved' = dict_update(saved, (mp :> [mapping |-> mapping, reverse |-> reverse]))
    /\ ret' = [op |-> "save", arg |-> out_path, out |-> mp]
    /\ UNCHANGED <<mapping, reverse, job, app>>

\* Scrubber.load(path)
Load(path) ==
    LET res == load(mapping, reverse, fs, path) IN
    /\ mapping' = res.mapping
    /\ reverse' = res.reverse
    /\ ret' = [op |-> "load", arg |-> path, out |-> res.raised]
    /\ UNCHANGED <<json_paths, fs, saved, job, app>>

\* os.path.exists answering False for every path
exists_never(disk, p) == FALSE

\* os.path.exists(mp)
exists(disk, p) == Norm(p) \in DOMAIN disk

\* Scrubber.auto_load(doc_path) as a function of the store and the disk
auto_load(m, r, disk, doc_path) ==
    LET mp == snapshot_path(doc_path) IN
    IF exists(disk, mp)
    THEN LET res == load(m, r, disk, mp) IN
         [mapping |-> res.mapping, reverse |-> res.reverse, raised |-> res.raised,
          value |-> IF res.raised = "None" THEN <<TRUE, mp>> ELSE <<>>]
    ELSE [mapping |-> m, reverse |-> r, raised |-> "None", value |-> <<FALSE, mp>>]

AutoLoad(doc_path) ==
    LET res == auto_load(mapping, reverse, fs, doc_path) IN
    /\ mapping' = res.mapping
    /\ reverse' = res.reverse
    /\ ret' = [op |-> "auto_load", arg |-> doc_path,
               out |-> [raised |-> res.raised, value |-> res.value]]
    /\ UNCHANGED <<json_paths, fs, saved, job, app>>

\* App._clear_map: self.scrubber = Scrubber()
ClearMap ==
    /\ mapping' = EmptyDict
    /\ reverse' = EmptyDict
    /\ json_paths' = <<>>
    /\ ret' = [op |-> "clear", arg |-> <<>>, out |-> "None"]
    /\ UNCHANGED <<fs, saved, job, app>>

Next ==
    \/ \E words \in WordLists : Build(words)
    \/ \E p \in OutPaths : Save(p)
    \/ \E p \in LoadPaths : Load(p)
    \/ \E p \in DocPaths : AutoLoad(p)
    \/ ClearMap

Spec == Init /\ [][Next]_vars

(***************************************************************************)
(* Documents, process and batch                                            *)
(***************************************************************************)
DOCX_OK == TRUE

PPTX_OK == TRUE

XLSX_OK == TRUE

\* Stand-ins for the two markers process puts before the extension.
mode_suffix(mode) == IF mode = "enc" THEN "_enc" ELSE "_dec"

\* The two values of mode
Modes == {"enc", "dec"}

\* str.lower() on the extensions of the model
lower(ext) == CASE ext = ".TXT" -> ".txt" [] OTHER -> ext

\* fn = self._enc if mode == "enc" else self._dec
fn(m, r, mode, text) == IF mode = "enc" THEN enc(m, text) ELSE dec(r, text)

\* "".join(r.text for r in p.runs) of a python-pptx paragraph
full_text(runs) == Flatten(runs)

\* fix_tf on one paragraph of a text frame: its runs before, its runs after
fix_tf(m, r, mode, runs) ==
    LET full  == full_text(runs)
        new   == fn(m, r, mode, full)
        each  == [k \in 1..Len(runs) |-> fn(m, r, mode, runs[k])]
    IN  IF full = new THEN runs
        ELSE IF full_text(each) # new
             THEN [k \in 1..Len(runs) |-> IF k = 1 THEN new ELSE <<>>]
             ELSE each

\* The inner content of a python-docx paragraph: its w:r children (runs)
\* and its w:hyperlink children, in document order.
Run(text) == [link |-> FALSE, text |-> text]

Hyperlink(text) == [link |-> TRUE, text |-> text]

\* Paragraph.runs: the positions of the w:r children
p_runs(p) == {k \in 1..Len(p) : ~p[k].link}

\* Paragraph.text of python-docx 1.x: the text of the w:r and w:hyperlink
\* children in order.  (Before 1.0 it left the hyperlinks out, which makes
\* a paragraph read as the same paragraph without its hyperlinks.)
p_text(p) == Flatten([k \in 1..Len(p) |-> p[k].text])

\* The texts of the runs of a paragraph, in order
run_texts(p) ==
    LET runs == SelectSeq(p, LAMBDA it : ~it.link)
    IN  [k \in 1..Len(runs) |-> runs[k].text]

\* fix of _handle_docx on one paragraph: the paragraph after
fix(m, r, mode, p) ==
    LET full  == p_text(p)
        new   == fn(m, r, mode, full)
        each  == [k \in 1..Len(p) |->
                     IF p[k].link THEN p[k] ELSE Run(fn(m, r, mode, p[k].text))]
        first == IF p_runs(p) = {} THEN 0
                 ELSE CHOOSE k \in p_runs(p) : \A j \in p_runs(p) : k <= j
    IN  IF full = new THEN p
        ELSE IF p_text(each) # new
             THEN [k \in 1..Len(p) |->
                      IF p[k].link THEN p[k]
                      ELSE Run(IF k = first THEN new ELSE <<>>)]
             ELSE each

\* The content a handler writes to dst, or the exception it raises.  A file
\* is text (it decodes), a docx / pptx / xlsx package, or binary: bytes that
\* decode in none of utf-8, utf-8-sig, gbk and are no package.
handle(ext, content, m, r, mode) ==
    CASE ext = ".txt" ->
            LET decoded == IF content.kind = "text" THEN content.text ELSE <<>>
            IN  [raised |-> "None",
                 content |-> [kind |-> "text", text |-> fn(m, r, mode, decoded)]]
      [] ext = ".docx" ->
            IF ~DOCX_OK THEN [raised |-> "ImportError"]
            ELSE IF content.kind # "docx" THEN [raised |-> "PackageNotFoundError"]
            ELSE [raised |-> "None",
                  content |-> [content EXCEPT !.blocks =
                      [k \in 1..Len(content.blocks) |-> fix(m, r, mode, content.blocks[k])]]]
      [] ext = ".pptx" ->
            IF ~PPTX_OK THEN [raised |-> "ImportError"]
            ELSE IF content.kind # "pptx" THEN [raised |-> "PackageNotFoundError"]
            ELSE [raised |-> "None",
                  content |-> [content EXCEPT !.blocks =
                      [k \in 1..Len(content.blocks) |-> fix_tf(m, r, mode, content.blocks[k])]]]
      [] ext = ".xlsx" ->
            IF ~XLSX_OK THEN [raised |-> "ImportError"]
            ELSE IF content.kind # "xlsx" THEN [raised |-> "BadZipFile"]
            ELSE [raised |-> "None",
                  content |-> [content EXCEPT !.cells =
                      [k \in 1..Len(content.cells) |-> fn(m, r, mode, content.cells[k])]]]

Handled == {".docx", ".pptx", ".xlsx", ".txt"}

Legacy == {".doc", ".ppt", ".xls"}

\* Scrubber.process(src, words, mode) as a function of the store and the
\* disk: what it returns or raises, and the disk and json_paths it leaves.
process(m, r, jp, disk, sv, src, mode) ==
    LET failed(err) == [raised |-> err, dst |-> None, mp |-> None,
                        disk |-> disk, json_paths |-> jp, saved |-> sv]
    IN  IF ~exists(disk, src) THEN failed("FileNotFoundError")
        ELSE LET ext == lower(src.ext)
                 dst == Path(dirname_or_dot(src), Append(src.stem, mode_suffix(mode)), ext)
             IN  IF ext \in Handled
                 THEN LET h == handle(ext, disk[Norm(src)], m, r, mode) IN
                      IF h.raised # "None" THEN failed(h.raised)
                      ELSE LET written == dict_update(disk, (dst :> h.content))
                               mp      == snapshot_path(dst)
                           IN  IF mode = "enc"
                               THEN [raised |-> "None", dst |-> dst, mp |-> mp,
                                     disk |-> dict_update(written, (mp :> json_dump(m, r))),
                                     json_paths |-> Append(jp, mp),
                                     saved |-> dict_update(sv,
                                         (mp :> [mapping |-> m, reverse |-> r]))]
                               ELSE [raised |-> "None", dst |-> dst, mp |-> None,
                                     disk |-> written, json_paths |-> jp, saved |-> sv]
                 ELSE IF ext \in Legacy THEN failed("ValueError: legacy format")
                 ELSE failed("ValueError: unsupported format")

MaxFiles == 2     \* longest file list handed to batch

TextDoc(text) == [kind |-> "text", text |-> text]

Binary == [kind |-> "binary"]

GoodTxt == Path("", <<"a">>, ".TXT")

BadTxt == Path("", <<"bad">>, ".txt")

GoodDocx == Path("d", <<"c">>, ".docx")

BadDocx == Path("d", <<"k">>, ".docx")

GoodPptx == Path("d", <<"p">>, ".pptx")

GoodXlsx == Path("d", <<"x">>, ".xlsx")

LegacyDoc == Path("", <<"old">>, ".doc")

OtherDoc == Path("", <<"note">>, ".pdf")

MissingTxt == Path("", <<"gone">>, ".txt")

\* The documents on disk from the start.
Documents ==
    (Norm(GoodTxt)   :> TextDoc(<<"A", "B", " ">> \o T1 \o <<"A">>)) @@
    (Norm(BadTxt)    :> Binary) @@
    (Norm(GoodDocx)  :> [kind |-> "docx", blocks |-> << <<Run(WordA), Run(<<"B">>)>>, <<Run(T1)>> >>]) @@
    (Norm(BadDocx)   :> Binary) @@
    (Norm(GoodPptx)  :> [kind |-> "pptx", blocks |-> << <<WordAB, WordA>> >>]) @@
    (Norm(GoodXlsx)  :> [kind |-> "xlsx", cells |-> <<WordAB, T1>>]) @@
    (Norm(LegacyDoc) :> Binary) @@
    (Norm(OtherDoc)  :> Binary)

FilePool == {GoodTxt, BadTxt, GoodDocx, BadDocx, GoodPptx, GoodXlsx, LegacyDoc, OtherDoc,
             MissingTxt}

FileLists == UNION {[1..n -> FilePool] : n \in 0..MaxFiles}

\* The word lists batch is called with.
BatchWords == {<<WordA>>, <<WordAB, <<" ", "A", " ">> >>}

\* The stores a batch starts from.
PreStores ==
    {[mapping |-> EmptyDict, reverse |-> EmptyDict],
     [mapping |-> (WordA :> T1), reverse |-> (T1 :> WordA)],
     [mapping |-> (WordA :> T2) @@ (WordAB :> T1),
      reverse |-> (T2 :> WordA) @@ (T1 :> WordAB)]}

InitBatch ==
    /\ \E st \in PreStores : mapping = st.mapping /\ reverse = st.reverse
    /\ json_paths = <<>>
    /\ fs = ForeignFiles @@ Documents
    /\ saved = EmptyDict
    /\ ret = [op |-> "init", arg |-> <<>>, out |-> <<>>]
    /\ job = Idle
    /\ app = AppInit

\* Scrubber.batch(files, words, mode, cb) up to its loop: build(words) in
\* mode "enc".  cb is "None" or "callable".
BatchStart(files, words, mode, cb) ==
    /\ ~job.active
    /\ ret.op = "init"
    /\ \E toks \in [1..Len(words) -> TokenPool] :
           LET st == IF mode = "enc" THEN build(mapping, reverse, words, toks)
                     ELSE [mapping |-> mapping, reverse |-> reverse]
           IN  mapping' = st.mapping /\ reverse' = st.reverse
    /\ job' = [active |-> TRUE, files |-> files, words |-> words, mode |-> mode,
               cb |-> cb, cb_raised |-> FALSE, i |-> 1, results |-> <<>>]
    /\ UNCHANGED <<json_paths, fs, saved, ret, app>>

\* results.append((fp, out, None, mp))
Success(fp, res) == <<fp, res.dst, None, res.mp>>

\* results.append((fp, None, str(e), None))
Failure(fp, err) == <<fp, None, Str(err), None>>

\* One iteration of the loop of batch, on files[i].  A callable cb returns
\* or raises; raised1 and raised2 say which, for its first and second call.
BatchFile(raised1, raised2) ==
    /\ job.active
    /\ job.i <= Len(job.files)
    /\ (job.cb = "None") => (~raised1 /\ ~raised2)
    /\ LET fp  == job.files[job.i]
           res == process(mapping, reverse, json_paths, fs, saved, fp, job.mode)
           ok  == res.raised = "None"
           \* the except clause ran: process raised, or cb raised inside the try
           caught  == ~ok \/ raised1
           \* the cb call of the except clause raised: batch raises
           escaped == IF ok THEN raised1 /\ raised2 ELSE raised1
           results == (IF ok THEN Append(job.results, Success(fp, res))
                       ELSE job.results)
                      \o (IF caught
                          THEN <<Failure(fp, IF ok THEN "cb raised" ELSE res.raised)>>
                          ELSE <<>>)
       IN  /\ (~ok) => ~raised2
           /\ (ok /\ ~raised1) => ~raised2
           /\ fs' = res.disk
           /\ json_paths' = res.json_paths
           /\ saved' = res.saved
           /\ IF escaped
              THEN /\ job' = Idle
                   /\ ret' = [op |-> "batch", arg |-> job.files,
                              out |-> [raised |-> TRUE, cb_raised |-> TRUE,
                                      results |-> results]]
              ELSE /\ job' = [job EXCEPT !.i = job.i + 1, !.results = results,
                                         !.cb_raised = job.cb_raised \/ raised1]
                   /\ ret' = ret
    /\ UNCHANGED <<mapping, reverse, app>>

\* return results
BatchReturn ==
    /\ job.active
    /\ job.i > Len(job.files)
    /\ ret' = [op |-> "batch", arg |-> job.files,
               out |-> [raised |-> FALSE, cb_raised |-> job.cb_raised,
                       results |-> job.results]]
    /\ job' = Idle
    /\ UNCHANGED <<mapping, reverse, json_paths, fs, saved, app>>

(***************************************************************************)
(* The App: the Tk main thread and the worker threads of _run              *)
(***************************************************************************)
MaxThreads == 2   \* most worker threads _run starts in one behaviour

MaxClears == 1    \* most _clear_map calls in one behaviour

EncOut == Path(".", <<"a", "_enc">>, ".txt")

\* zone.files at the time of the click, for each zone
ZoneFiles(mode) == IF mode = "enc" THEN {<<>>, <<GoodTxt>>} ELSE {<<>>, <<EncOut>>}

\* self._words() at the time of the click
BoxWords == {<<>>, <<WordA>>}

\* What the user answers to the dialogs of _run: cancel, or a JSON file
JsonChoices == {None, Foreign("other"), Foreign("badrev")}

\* The Scrubber object self.scrubber refers to
CurrentStore == app.stores[app.scrubber]

SetStore(a, k, m, r, jp) ==
    [a EXCEPT !.stores[k] = [mapping |-> m, reverse |-> r, json_paths |-> jp]]

Thread(files, words, mode) ==
    [pc |-> "start", obj |-> 0, files |-> files, words |-> words, mode |-> mode,
     i |-> 1, results |-> <<>>]

\* App._run(mode) on the main thread, up to Thread(...).start()
App_run(mode, files, words, jp) ==
    /\ Len(app.threads) < MaxThreads
    /\ LET st      == CurrentStore
           back(a, ld)  == [a EXCEPT !.last = [op |-> "_run", load |-> ld]]
           start(a, ld) == [back(a, ld) EXCEPT !.threads =
                               Append(a.threads,
                                      Thread(files, IF mode = "enc" THEN words ELSE <<>>,
                                             mode))]
       IN  IF files = <<>> \/ (mode = "enc" /\ words = <<>>)
           THEN app' = back(app, FALSE)
           ELSE IF mode = "dec" /\ st.reverse = EmptyDict
           THEN LET al == auto_load(st.mapping, st.reverse, fs, files[1])
                    a1 == SetStore(app, app.scrubber, al.mapping, al.reverse,
                                   st.json_paths)
                IN  IF al.raised # "None" THEN app' = back(a1, TRUE)
                    ELSE IF al.value[1] THEN app' = start(a1, TRUE)
                    ELSE IF jp = None THEN app' = back(app, FALSE)
                    ELSE LET res == load(st.mapping, st.reverse, fs, jp)
                             a2  == SetStore(app, app.scrubber, res.mapping,
                                             res.reverse, st.json_paths)
                         IN  IF res.raised # "None" THEN app' = back(a2, TRUE)
                             ELSE app' = start(a2, TRUE)
           ELSE app' = start(app, FALSE)
    /\ UNCHANGED <<mapping, reverse, json_paths, fs, saved, ret, job>>

\* worker(): self.scrubber.batch(...) up to the loop of batch
worker_start(t) ==
    /\ app.threads[t].pc = "start"
    /\ LET w  == app.threads[t]
           k  == app.scrubber
           st == app.stores[k]
       IN  \E toks \in [1..Len(w.words) -> TokenPool] :
               LET b == IF w.mode = "enc"
                        THEN build(st.mapping, st.reverse, w.words, toks)
                        ELSE [mapping |-> st.mapping, reverse |-> st.reverse]
               IN  app' = [SetStore(app, k, b.mapping, b.reverse, st.json_paths)
                             EXCEPT !.threads[t].pc = "loop", !.threads[t].obj = k,
                                    !.last = [op |-> "worker", load |-> FALSE]]
    /\ UNCHANGED <<mapping, reverse, json_paths, fs, saved, ret, job>>

\* One iteration of the loop of batch in a worker thread; cb returns.
worker_file(t) ==
    /\ app.threads[t].pc = "loop"
    /\ app.threads[t].i <= Len(app.threads[t].files)
    /\ LET w   == app.threads[t]
           st  == app.stores[w.obj]
           fp  == w.files[w.i]
           res == process(st.mapping, st.reverse, st.json_paths, fs, saved, fp, w.mode)
           out == IF res.raised = "None" THEN Success(fp, res)
                  ELSE Failure(fp, res.raised)
       IN  /\ app' = [SetStore(app, w.obj, st.mapping, st.reverse, res.json_paths)
                        EXCEPT !.threads[t].i = w.i + 1,
                               !.threads[t].results = Append(w.results, out),
                               !.last = [op |-> "worker", load |-> FALSE]]
           /\ fs' = res.disk
           /\ saved' = res.saved
    /\ UNCHANGED <<mapping, reverse, json_paths, ret, job>>

\* batch returns; self.root.after(0, lambda: self._done(results, mode))
worker_end(t) ==
    /\ app.threads[t].pc = "loop"
    /\ app.threads[t].i > Len(app.threads[t].files)
    /\ app' = [app EXCEPT !.threads[t].pc = "done",
                          !.pending = Append(app.pending,
                              [results |-> app.threads[t].results,
                               mode |-> app.threads[t].mode]),
                          !.last = [op |-> "worker", load |-> FALSE]]
    /\ UNCHANGED <<mapping, reverse, json_paths, fs, saved, ret, job>>

\* App._done(results, mode) on the main thread; del_json is del_json_var.
App_done(del_json) ==
    /\ app.pending # <<>>
    /\ LET ev  == Head(app.pending)
           ok  == \E k \in 1..Len(ev.results) : ev.results[k][3] = None
           jps == {Norm(CurrentStore.json_paths[k]) :
                       k \in 1..Len(CurrentStore.json_paths)}
       IN  fs' = IF ev.mode = "dec" /\ ok /\ del_json
                 THEN [q \in DOMAIN fs \ jps |-> fs[q]]
                 ELSE fs
    /\ app' = [app EXCEPT !.pending = Tail(app.pending),
                          !.last = [op |-> "_done", load |-> FALSE]]
    /\ UNCHANGED <<mapping, reverse, json_paths, saved, ret, job>>

\* FileList._load_json(path) on the main thread
FileList_load_json(path) ==
    /\ LET st  == CurrentStore
           res == load(st.mapping, st.reverse, fs, path)
       IN  app' = [SetStore(app, app.scrubber, res.mapping, res.reverse, st.json_paths)
                     EXCEPT !.last = [op |-> "_load_json", load |-> TRUE]]
    /\ UNCHANGED <<mapping, reverse, json_paths, fs, saved, ret, job>>

\* App._clear_map on the main thread: a new Scrubber object
App_clear_map ==
    /\ Len(app.stores) <= MaxClears
    /\ app' = [app EXCEPT !.stores = Append(app.stores, EmptyStore),
                          !.scrubber = Len(app.stores) + 1,
                          !.last = [op |-> "_clear_map", load |-> FALSE]]
    /\ UNCHANGED <<mapping, reverse, json_paths, fs, saved, ret, job>>

InitApp ==
    /\ mapping = EmptyDict
    /\ reverse = EmptyDict
    /\ json_paths = <<>>
    /\ fs = ForeignFiles @@ Documents
    /\ saved = EmptyDict
    /\ ret = [op |-> "init", arg |-> <<>>, out |-> <<>>]
    /\ job = Idle
    /\ app = AppInit

NextApp ==
    \/ \E mode \in Modes, words \in BoxWords, jp \in JsonChoices :
           \E files \in ZoneFiles(mode) : App_run(mode, files, words, jp)
    \/ \E t \in 1..Len(app.threads) : worker_start(t)
    \/ \E t \in 1..Len(app.threads) : worker_file(t)
    \/ \E t \in 1..Len(app.threads) : worker_end(t)
    \/ \E del_json \in BOOLEAN : App_done(del_json)
    \/ \E path \in JsonChoices \ {None} : FileList_load_json(path)
    \/ App_clear_map

SpecApp == InitApp /\ [][NextApp]_vars

NextBatch ==
    \/ \E files \in FileLists, words \in BatchWords, cb \in {"None", "callable"} :
           BatchStart(files, words, "enc", cb)
    \/ \E files \in FileLists, cb \in {"None", "callable"} :
           BatchStart(files, <<>>, "dec", cb)
    \/ \E raised1, raised2 \in BOOLEAN : BatchFile(raised1, raised2)
    \/ BatchReturn

SpecBatch == InitBatch /\ [][NextBatch]_vars

NextBuilt ==
    \/ \E words \in WordLists : Build(words)
    \/ \E text \in Texts : Enc(text)
    \/ \E text \in Texts : Dec(text)

\* The stores build alone makes, and the texts run through them.
SpecBuilt == Init /\ [][NextBuilt]_vars

NextText ==
    \/ \E words \in WordLists : Build(words)
    \/ \E p \in LoadPaths : Load(p)
    \/ \E text \in Texts : Enc(text)
    \/ \E text \in Texts : Dec(text)

SpecText == Init /\ [][NextText]_vars

(***************************************************************************)
(* The paragraphs of the docx and pptx adapters                            *)
(***************************************************************************)
MaxRuns == 2      \* most children (runs, hyperlinks) of one paragraph

\* What a run holds: a mapped word, the rest of a longer word, and the two
\* halves of a token, so that words and tokens span run boundaries.
RunPieces == {<<"A">>, <<"B">>, SubSeq(T1, 1, 8), SubSeq(T1, 9, TokenLen)}

RunLists == UNION {[1..n -> RunPieces] : n \in 0..MaxRuns}

ParagraphItems == {Run(t) : t \in RunPieces} \cup {Hyperlink(<<"A">>)}

Paragraphs == UNION {[1..n -> ParagraphItems] : n \in 0..MaxRuns}

\* fix(p) of _handle_docx on one paragraph of the document
FixDocx(p, mode) ==
    /\ ret' = [op |-> "fix", arg |-> <<mode, p>>,
               out |-> fix(mapping, reverse, mode, p)]
    /\ UNCHANGED <<mapping, reverse, json_paths, fs, saved, job, app>>

\* The body of the loop of fix_tf of _handle_pptx on one paragraph
FixPptx(runs, mode) ==
    /\ ret' = [op |-> "fix_tf", arg |-> <<mode, runs>>,
               out |-> fix_tf(mapping, reverse, mode, runs)]
    /\ UNCHANGED <<mapping, reverse, json_paths, fs, saved, job, app>>

NextFix ==
    \/ \E p \in Paragraphs, mode \in Modes : FixDocx(p, mode)
    \/ \E runs \in RunLists, mode \in Modes : FixPptx(runs, mode)

SpecFix == InitBatch /\ [][NextFix]_vars

(***************************************************************************)
(* Properties                                                              *)
(***************************************************************************)
Tokens(text) == {mask_findall(text)[k] : k \in 1..Len(mask_findall(text))}

\* No two words share a token: uuid4 gave no value twice.
NoCollision == \A v, w \in DOMAIN mapping : mapping[v] = mapping[w] => v = w

RECURSIVE IsSubseq(_, _)
IsSubseq(a, b) ==
    IF a = <<>> THEN TRUE
    ELSE IF b = <<>> THEN FALSE
    ELSE IF Head(a) = Head(b) THEN IsSubseq(Tail(a), Tail(b))
    ELSE IsSubseq(a, Tail(b))

IsProperPrefix(v, w) == Len(v) < Len(w) /\ SubSeq(w, 1, Len(v)) = v

\* C1 as claimed: with the store build made (no word of the model is a
\* token), _dec(_enc(T)) = T for every text T.
C1_RoundTripAnyText ==
    ret.op = "enc" => dec(reverse, ret.out) = ret.arg

\* C1, amended: with a store made by build in which no two words were given
\* the same token, _dec(_enc(T)) = T for every text T that holds no
\* well-formed token that is a key of reverse.
C1_RoundTrip ==
    (ret.op = "enc" /\ NoCollision /\ Tokens(ret.arg) \cap DOMAIN reverse = {})
        => dec(reverse, ret.out) = ret.arg

\* A text holding a mapped word and a token the store does not know was
\* encoded: the word was replaced, and _dec gives the text back.
C1_Witness ==
    /\ ret.op = "enc"
    /\ NoCollision
    /\ mapping # EmptyDict
    /\ Tokens(ret.arg) # {}
    /\ Tokens(ret.arg) \cap DOMAIN reverse = {}
    /\ ret.out # ret.arg
    /\ dec(reverse, ret.out) = ret.arg

\* mapping and reverse are mutual inverses: reverse[mapping[w]] = w for every
\* word, mapping[reverse[t]] = t for every token, no two words share a token.
Bijection ==
    /\ \A w \in DOMAIN mapping :
           mapping[w] \in DOMAIN reverse /\ reverse[mapping[w]] = w
    /\ \A t \in DOMAIN reverse :
           reverse[t] \in DOMAIN mapping /\ mapping[reverse[t]] = t
    /\ NoCollision

\* C2: after any sequence of build and load calls, mapping and reverse are
\* mutual inverses.  Stated as the step of that invariant for load: a load
\* that returns takes mutually inverse mapping and reverse to mutually
\* inverse ones.
C2_Bijection ==
    [][(Bijection /\ ret'.op = "load" /\ ret'.out = "None") => Bijection']_vars

\* C3: while the Scrubber object lives (no step replaces it), mapping[word]
\* never changes once set.
C3_PairsImmutable ==
    [][ret'.op # "clear" =>
          \A w \in DOMAIN mapping : w \in DOMAIN mapping' /\ mapping'[w] = mapping[w]]_vars

\* C4: the well-formed tokens of T, in their order, are a subsequence of the
\* well-formed tokens of _enc(T): _enc alters none of them, whatever the
\* store maps.
C4_TokensUntouched ==
    ret.op = "enc" => IsSubseq(mask_findall(ret.arg), mask_findall(ret.out))

\* A text holding the token T1, whose hex body contains the mapped words "A"
\* and "AB", was encoded and a word outside the token was replaced.
C4_Witness ==
    /\ ret.op = "enc"
    /\ {WordA, WordAB} \subseteq DOMAIN mapping
    /\ T1 \in Tokens(ret.arg)
    /\ ret.out # ret.arg
    /\ IsSubseq(mask_findall(ret.arg), mask_findall(ret.out))

\* C5: _enc of a text that is a mapped word, another mapped word being a
\* proper prefix of it, is the token of the whole word, and not the token
\* of the prefix followed by the rest.
C5_LongestMatch ==
    (/\ ret.op = "enc"
     /\ ret.arg \in DOMAIN mapping
     /\ mask_findall(ret.arg) = <<>>
     /\ \E v \in DOMAIN mapping : IsProperPrefix(v, ret.arg))
        => /\ ret.out = mapping[ret.arg]
           /\ \A v \in DOMAIN mapping :
                  IsProperPrefix(v, ret.arg) =>
                      ret.out # mapping[v] \o SubSeq(ret.arg, Len(v) + 1, Len(ret.arg))

\* "AB" was encoded with "A" and "AB" mapped to different tokens.
C5_Witness ==
    /\ ret.op = "enc"
    /\ ret.arg = WordAB
    /\ {WordA, WordAB} \subseteq DOMAIN mapping
    /\ mapping[WordA] # mapping[WordAB]
    /\ ret.out = mapping[WordAB]

\* C6: right after build(W) every non-empty trimmed word of W is a key of
\* mapping, and a build(W) that follows a build(W) changes neither mapping
\* nor reverse.
C6_BuildIdempotent ==
    /\ [](ret.op = "build" =>
             \A k \in 1..Len(ret.arg) :
                 strip(ret.arg[k]) # <<>> => strip(ret.arg[k]) \in DOMAIN mapping)
    /\ [][(ret.op = "build" /\ ret'.op = "build" /\ ret'.arg = ret.arg)
             => (mapping' = mapping /\ reverse' = reverse)]_vars

\* build was called with a word that needs trimming, and its trimmed form
\* is a key.
C6_Witness ==
    /\ ret.op = "build"
    /\ ret.arg = << <<" ", "A", " ">> >>
    /\ WordA \in DOMAIN mapping
    /\ reverse[mapping[WordA]] = WordA

\* C7: _dec gives the text with every well-formed token that is a key of
\* reverse replaced by its word, and every other token and all the text
\* between the tokens as they were; it gives a text for every input.
C7_DecTolerant ==
    ret.op = "dec" =>
        LET masks == mask_findall(ret.arg)
            words == [k \in 1..Len(masks) |->
                         IF masks[k] \in DOMAIN reverse THEN reverse[masks[k]]
                         ELSE masks[k]]
        IN  ret.out = Interleave(mask_split(ret.arg), words)

\* A text with a token that is no key of a non-empty reverse was decoded
\* and came back as it was.
C7_Witness ==
    /\ ret.op = "dec"
    /\ reverse # EmptyDict
    /\ Tokens(ret.arg) # {}
    /\ Tokens(ret.arg) \cap DOMAIN reverse = {}
    /\ Len(ret.arg) > TokenLen
    /\ ret.out = ret.arg

\* C8: load of a snapshot file save wrote, into a Scrubber whose mapping and
\* reverse are empty, returns and leaves mapping and reverse as they were in
\* the Scrubber that saved, at the time of that save.
C8_SnapshotRoundTrip ==
    [][(/\ ret'.op = "load"
        /\ mapping = EmptyDict
        /\ reverse = EmptyDict
        /\ Norm(ret'.arg) \in DOMAIN saved)
          => /\ ret'.out = "None"
             /\ mapping' = saved[Norm(ret'.arg)].mapping
             /\ reverse' = saved[Norm(ret'.arg)].reverse]_vars

\* A new Scrubber (it has saved nothing) loaded the snapshot of a store of
\* two words.
C8_Witness ==
    /\ ret.op = "load"
    /\ json_paths = <<>>
    /\ Norm(ret.arg) \in DOMAIN saved
    /\ DOMAIN mapping = {WordA, WordAB}
    /\ mapping = saved[Norm(ret.arg)].mapping
    /\ reverse = saved[Norm(ret.arg)].reverse

\* The files batch must fail on: missing, of a format process has no handler
\* for, or corrupt (bytes that are neither text nor a package).
Unprocessable(disk, fp) ==
    \/ Norm(fp) \notin DOMAIN disk
    \/ lower(fp.ext) \notin Handled
    \/ disk[Norm(fp)].kind = "binary"

\* C9: batch returns one outcome per file, in the order of the files: the
\* failure outcome (input, None, error, None) for a file that is missing,
\* of an unsupported format or corrupt, and a success outcome (input,
\* output, None, snapshot or None) for every other file.  Stated for the
\* calls in which cb is None or every call of cb returned; a cb that raises
\* inside the try of batch breaks the count as well (see BatchFile).
C9_BatchIsolation ==
    (ret.op = "batch" /\ ~ret.out.cb_raised) =>
        /\ ~ret.out.raised
        /\ Len(ret.out.results) = Len(ret.arg)
        /\ \A k \in 1..Len(ret.arg) :
               LET o == ret.out.results[k] IN
               /\ o[1] = ret.arg[k]
               /\ IF Unprocessable(Documents, ret.arg[k])
                  THEN o[2] = None /\ o[3] # None /\ o[4] = None
                  ELSE o[2] # None /\ o[3] = None

\* C10 as claimed: auto_load changes neither mapping nor reverse.
C10_DiscoverReadOnly ==
    [][ret'.op = "auto_load" => (mapping' = mapping /\ reverse' = reverse)]_vars

\* C10, amended: auto_load computes the snapshot path of the document (its
\* directory or ".", its base name followed by the suffix); when no file
\* is there it returns (False, path) and changes neither mapping nor
\* reverse; when a file is there it does to mapping and reverse what load of
\* that path does, and returns (True, path) unless that load raised.
C10_AutoLoadLoads ==
    [][ret'.op = "auto_load" =>
          LET doc == ret'.arg
              mp  == Path(IF doc.dir = "" THEN "." ELSE doc.dir,
                          doc.stem \o <<"_mask_mapping">>, ".json")
              res == load(mapping, reverse, fs, mp)
          IN  IF mp \in DOMAIN fs
              THEN /\ mapping' = res.mapping
                   /\ reverse' = res.reverse
                   /\ ret'.out.raised = res.raised
                   /\ res.raised = "None" => ret'.out.value = <<TRUE, mp>>
              ELSE /\ mapping' = mapping
                   /\ reverse' = reverse
                   /\ ret'.out = [raised |-> "None", value |-> <<FALSE, mp>>]]_vars

\* auto_load found the snapshot of the document and loaded a word from it
\* into a store that held another.
C10_Witness ==
    /\ ret.op = "auto_load"
    /\ ret.out.raised = "None"
    /\ ret.out.value[1] = TRUE
    /\ ret.out.value[2] \in DOMAIN fs
    /\ fs[ret.out.value[2]].members.mapping.d = (WordA :> T2)
    /\ DOMAIN mapping = {WordA, WordAB}
    /\ mapping[WordA] = T2

\* The shape the snapshot is said to have: a JSON object carrying a
\* "mapping" object and a "reverse" object, the latter under the key
\* "reverse" or, when that key is absent, under "reverse_mapping".
WellShaped(content) ==
    /\ content.kind = "json"
    /\ content.top = "object"
    /\ "mapping" \in DOMAIN content.members
    /\ content.members["mapping"].t = "dict"
    /\ IF "reverse" \in DOMAIN content.members
       THEN content.members["reverse"].t = "dict"
       ELSE /\ "reverse_mapping" \in DOMAIN content.members
            /\ content.members["reverse_mapping"].t = "dict"

\* C11: a load of a snapshot file that does not parse or has not the shape
\* WellShaped raises; no such file is accepted silently.
C11_MalformedRejected ==
    (/\ ret.op = "load"
     /\ Norm(ret.arg) \in DOMAIN fs
     /\ ~WellShaped(fs[Norm(ret.arg)])) => ret.out # "None"

\* C14: a load that raises leaves mapping and reverse as they were before
\* the call.
C14_AtomicLoad ==
    [][(ret'.op = "load" /\ ret'.out # "None") =>
          (mapping' = mapping /\ reverse' = reverse)]_vars

\* C12: after the fix step of the docx adapter and of the pptx adapter the
\* concatenation of the texts of the runs of the paragraph is fn of their
\* concatenation before the step, and when fn leaves the full string of
\* the paragraph unchanged no run is modified.
C12_RewritePostcondition ==
    /\ ret.op = "fix" =>
          LET mode == ret.arg[1]
              p    == ret.arg[2]
          IN  /\ Flatten(run_texts(ret.out)) =
                     fn(mapping, reverse, mode, Flatten(run_texts(p)))
              /\ fn(mapping, reverse, mode, p_text(p)) = p_text(p) => ret.out = p
    /\ ret.op = "fix_tf" =>
          LET mode == ret.arg[1]
              runs == ret.arg[2]
          IN  /\ Flatten(ret.out) = fn(mapping, reverse, mode, Flatten(runs))
              /\ fn(mapping, reverse, mode, Flatten(runs)) = Flatten(runs)
                     => ret.out = runs

\* The part of C12 about the pptx adapter, whose full string is the
\* concatenation of the runs.
C12_PptxPostcondition ==
    ret.op = "fix_tf" =>
        LET mode == ret.arg[1]
            runs == ret.arg[2]
        IN  /\ Flatten(ret.out) = fn(mapping, reverse, mode, Flatten(runs))
            /\ fn(mapping, reverse, mode, Flatten(runs)) = Flatten(runs)
                   => ret.out = runs

\* A worker thread that is inside batch, and the Scrubber object it runs on
Running(w) == w.pc = "loop"

Busy(a, k) == \E t \in 1..Len(a.threads) : Running(a.threads[t]) /\ a.threads[t].obj = k

\* C13: no two worker threads are inside batch on one Scrubber object at
\* a time, and no load or clear-mapping on the main thread (_load_json,
\* _clear_map, the load of _run) is taken while a worker thread is inside
\* batch on the Scrubber object the App refers to.
C13_Serialized ==
    /\ [](\A t, u \in 1..Len(app.threads) :
             (t # u /\ Running(app.threads[t]) /\ Running(app.threads[u]))
                 => app.threads[t].obj # app.threads[u].obj)
    /\ [][(app'.last.load \/ app'.last.op = "_clear_map")
              => ~Busy(app, app.scrubber)]_vars

====
